---- MODULE Spec2Model ----
(***************************************************************************)
(* Model of the backend of Pheeck/bitmex: the account registry             *)
(* (backend/accounts.py), the fan-out engine and the order composers       *)
(* (backend/core.py) talking to a mock exchange through backend/api.py.    *)
(*                                                                         *)
(* Python exceptions are records [type, text]; a text is the sequence of   *)
(* the string pieces that the code concatenates.  Floats are exact         *)
(* rationals [num, den] with den > 0, kept in lowest terms.                *)
(***************************************************************************)
EXTENDS Integers, Sequences, FiniteSets, TLC

VARIABLES accounts, exchange, call, mt

vars == <<accounts, exchange, call, mt>>

(***************************************************************************)
(* Bounds and input sets                                                   *)
(***************************************************************************)
MaxNames == 3        \* longest accountNames list given to a fan-out
MaxOrderNames == 2   \* longest accountNames list given to an order composer

Names == {"a", "b", "c"}

HOST == "https://www.bitmex.com/"

\* The credentials the operator owns: "c" is a name that is never registered.
KnownAccounts ==
    { [name |-> "a", key |-> "ka", secret |-> "sa", host |-> HOST],
      [name |-> "b", key |-> "kb", secret |-> "sb", host |-> HOST] }

Keys == {acc.key : acc \in KnownAccounts}

NameLists(n) == UNION {[1..k -> Names] : k \in 0..n}

\* What the exchange does with the requests signed by one api key.
Behaviours == {"ok", "down", "noMargin", "reject"}

\* availableMargin (in satoshis) the exchange reports for each api key.
AvailableMargin == [ka |-> 100000000, kb |-> 250000000]

SATOSHI == 100000000

Instruments ==
    [XBTUSD |-> [symbol |-> "XBTUSD", tickSize |-> 1, isInverse |-> TRUE,
                 multiplier |-> -100000000],
     ETHUSD |-> [symbol |-> "ETHUSD", tickSize |-> 1, isInverse |-> FALSE,
                 multiplier |-> 100]]

(***************************************************************************)
(* Python values                                                           *)
(***************************************************************************)
None == [none |-> TRUE]

\* an optional argument that is given
Some(v) == [some |-> v]

NoExc == [type |-> "None", text |-> <<>>]

Exc(type, text) == [type |-> type, text |-> text]

\* subscripting None: account["key"] with account = None
TypeErrorNone == Exc("TypeError", <<"'NoneType' object is not subscriptable">>)

ZeroDivisionError == Exc("ZeroDivisionError", <<"float division by zero">>)

KeyError(key) == Exc("KeyError", <<key>>)

Raised(r) == r.raised.type # "None"

\* Body(v) for v the value of an expression that is evaluated once: the
\* assignment of a local variable
With(value, Body(_)) == CHOOSE r \in {Body(v) : v \in {value}} : TRUE

Abs(n) == IF n < 0 THEN -n ELSE n

RECURSIVE GCD(_, _)
GCD(a, b) == IF b = 0 THEN a ELSE With(a % b, LAMBDA r : GCD(b, r))

Rat(n, d) ==
    With(GCD(Abs(n), d), LAMBDA g : [num |-> n \div g, den |-> d \div g])

RatMul(x, y) ==
    With(Rat(x.num, y.den), LAMBDA a :
    With(Rat(y.num, x.den), LAMBDA b :
      [num |-> a.num * b.num, den |-> a.den * b.den]))

\* x / y for y > 0
RatDiv(x, y) == RatMul(x, [num |-> y.den, den |-> y.num])

\* Python 3 round(): to the nearest integer, a tie goes to the even one
round(x) ==
    LET q == x.num \div x.den
        r == x.num % x.den
    IN  IF 2 * r < x.den THEN q
        ELSE IF 2 * r > x.den THEN q + 1
        ELSE IF q % 2 = 0 THEN q ELSE q + 1

(***************************************************************************)
(* backend/accounts.py                                                     *)
(***************************************************************************)
\* Whether an entry of the registry has a name: new gives every account
\* one, load appends the entries of the savefile as they are
HasName(entry) == "name" \in DOMAIN entry

RegisteredNames(reg) ==
    {reg[i].name : i \in {j \in 1..Len(reg) : HasName(reg[j])}}

\* get reads account["name"] of every entry up to the first one with that
\* name: an entry without a name on the way raises KeyError
GetRaises(reg, name) ==
    \E i \in 1..Len(reg) :
        /\ ~HasName(reg[i])
        /\ \A j \in 1..(i - 1) : HasName(reg[j]) => reg[j].name # name

\* get: the first account with that name, None when there is none
get(reg, name) ==
    IF name \in RegisteredNames(reg)
    THEN reg[CHOOSE i \in 1..Len(reg) :
                /\ HasName(reg[i]) /\ reg[i].name = name
                /\ \A j \in 1..(i - 1) : HasName(reg[j]) => reg[j].name # name]
    ELSE None

RemoveAt(s, i) == SubSeq(s, 1, i - 1) \o SubSeq(s, i + 1, Len(s))

\* delete: pops while enumerating, so the element that moves into a popped
\* slot is not examined
RECURSIVE delete_loop(_, _, _)
delete_loop(reg, name, i) ==
    IF i > Len(reg) THEN reg
    ELSE IF reg[i].name = name
    THEN With(RemoveAt(reg, i), LAMBDA popped : delete_loop(popped, name, i + 1))
    ELSE delete_loop(reg, name, i + 1)

(***************************************************************************)
(* backend/api.py against the mock exchange                                *)
(***************************************************************************)
ApiFails(ex, key, endpoint) ==
    \/ ex[key] = "down"
    \/ ex[key] = "noMargin" /\ endpoint = "user_margin_get"
    \/ ex[key] = "reject" /\ endpoint = "order_post"

BitmexApiException(endpoint) ==
    Exc("BitmexApiException", <<"400 HTTPError: ", endpoint>>)

\* One order as GET /order reports it
Order(orderID, ordType, side, orderQty, leavesQty, ordStatus) ==
    [orderID |-> orderID, symbol |-> "XBTUSD", orderQty |-> orderQty,
     side |-> side, price |-> IF ordType = "Limit" THEN Some(200) ELSE None,
     displayQty |-> None, leavesQty |-> leavesQty, avgPx |-> None,
     ordType |-> ordType, ordStatus |-> ordStatus, execInst |-> "",
     transactTime |-> "2019-01-01", stopPx |-> IF ordType = "Stop"
                                               THEN Some(150) ELSE None]

\* The orders the mock exchange holds for an api key, oldest first
OrderBook(key) ==
    IF key = "ka"
    THEN << Order("o1", "Limit", "Sell", 3, 0, "Filled"),
            Order("o2", "Limit", "Buy", 5, 5, "New"),
            Order("o3", "Stop", "Sell", 5, 5, "New") >>
    ELSE << Order("o4", "Market", "Sell", 2, 0, "Filled"),
            Order("o5", "Stop", "Buy", 7, 7, "New") >>

Reverse(s) == [i \in 1..Len(s) |-> s[Len(s) + 1 - i]]

\* GET /order: filter={"open": True} keeps the open orders; reverse and
\* count give the newest count orders, newest first
OrderGet(key, params) ==
    With(IF "filter" \in DOMAIN params
         THEN SelectSeq(OrderBook(key), LAMBDA o : o.leavesQty > 0)
         ELSE OrderBook(key), LAMBDA matching :
    With(IF "reverse" \in DOMAIN params THEN Reverse(matching) ELSE matching,
         LAMBDA sorted :
      IF "count" \in DOMAIN params /\ params.count < Len(sorted)
      THEN SubSeq(sorted, 1, params.count)
      ELSE sorted))

ApiResponse(key, endpoint, params) ==
    CASE endpoint = "user_margin_get" ->
            [availableMargin |-> AvailableMargin[key], currency |-> params.currency]
      [] endpoint = "instrument_get" -> <<Instruments[params.symbol]>>
      [] endpoint = "order_post" ->
            [orderQty |-> params.orderQty, ordType |-> params.ordType,
             side |-> params.side, symbol |-> params.symbol]
      [] endpoint = "order_get" -> OrderGet(key, params)

\* call(host, key, secret, **params): one signed request and its response
ApiCall(ex, account, endpoint, params) ==
    With(ApiFails(ex, account.key, endpoint), LAMBDA fails :
    With(IF fails THEN None ELSE ApiResponse(account.key, endpoint, params),
         LAMBDA response :
      [raised |-> IF fails THEN BitmexApiException(endpoint) ELSE NoExc,
       response |-> response,
       req |-> [endpoint |-> endpoint, key |-> account.key,
                params |-> params, ok |-> ~fails, response |-> response]]))

(***************************************************************************)
(* backend/core.py: the fan-out engine                                     *)
(***************************************************************************)
BitmexCoreMultiException ==
    [type |-> "BitmexCoreMultiException", accounts |-> <<>>,
     exceptions |-> <<>>, tracebacks |-> <<>>]

\* except around accounts.get: the exception is recorded, no account is
RecordLookup(coreExc, e) ==
    [coreExc EXCEPT !.exceptions = Append(@, e),
                    !.tracebacks = Append(@, e.type)]

\* BitmexCoreMultiException.__str__ with no args: the heading, then one line
\* per pair of zip(self.accounts, self.exceptions)
__str__(coreExc) ==
    With(IF Len(coreExc.accounts) < Len(coreExc.exceptions)
         THEN Len(coreExc.accounts) ELSE Len(coreExc.exceptions), LAMBDA n :
      <<<<"Core Error:">>>>
      \o [i \in 1..n |-> <<coreExc.accounts[i].name, ": ">>
                          \o coreExc.exceptions[i].text])

Record(coreExc, account, e) ==
    [coreExc EXCEPT !.accounts = Append(@, account),
                    !.exceptions = Append(@, e),
                    !.tracebacks = Append(@, e.type)]

\* _for_one_account: an exception of accounts.get is raised again as a core
\* exception; a missing name gives None and reaches account["key"]
_for_one_account(reg, ex, accountName, endpoint, params) ==
    IF GetRaises(reg, accountName)
    THEN [raised |-> Exc("BitmexCoreException", KeyError("name").text),
          value |-> None, net |-> <<>>]
    ELSE
    With(get(reg, accountName), LAMBDA account :
      IF account = None
      THEN [raised |-> TypeErrorNone, value |-> None, net |-> <<>>]
      ELSE With(ApiCall(ex, account, endpoint, params), LAMBDA r :
             IF Raised(r)
             THEN [raised |-> Exc("BitmexCoreException",
                                  <<account.name, ":\n">> \o r.raised.text),
                   value |-> None, net |-> <<r.req>>]
             ELSE [raised |-> NoExc,
                   value |-> [account |-> account, response |-> r.response],
                   net |-> <<r.req>>]))

\* account_available_margin: availableMargin * 1e-8
account_available_margin(reg, ex, accountName) ==
    With(_for_one_account(reg, ex, accountName, "user_margin_get",
                          [currency |-> "XBt"]), LAMBDA r :
      IF Raised(r) THEN r
      ELSE [r EXCEPT !.value = Rat(r.value.response.availableMargin, SATOSHI)])

\* The locals of a fan-out loop; attempted lists the names handed to
\* accounts.get so far.
LoopInit ==
    [i |-> 1, result |-> <<>>, coreExc |-> BitmexCoreMultiException,
     net |-> <<>>, attempted |-> <<>>, raised |-> NoExc]

\* What a fan-out gives its caller once the loop is over
LoopExit(st) ==
    [raised |-> IF st.raised.type # "None" THEN st.raised
                ELSE IF st.coreExc.exceptions # <<>> THEN st.coreExc
                ELSE NoExc,
     value |-> IF st.raised.type = "None" /\ st.coreExc.exceptions = <<>>
               THEN st.result ELSE None,
     result |-> st.result, coreExc |-> st.coreExc, net |-> st.net,
     attempted |-> st.attempted]

\* The locals after one more request, a success put in front of result
AfterCallPrepending(st, account, r) ==
    IF Raised(r)
    THEN [st EXCEPT !.net = Append(@, r.req),
                    !.coreExc = Record(@, account, r.raised)]
    ELSE [st EXCEPT !.net = Append(@, r.req),
                    !.result = <<[account |-> account,
                                  response |-> r.response]>> \o @]

\* The locals after one more request: a success joins result, a failure is
\* recorded in coreExc with its account
AfterCall(st, account, r) ==
    IF Raised(r)
    THEN [st EXCEPT !.net = Append(@, r.req),
                    !.coreExc = Record(@, account, r.raised)]
    ELSE [st EXCEPT !.net = Append(@, r.req),
                    !.result = Append(@, [account |-> account,
                                          response |-> r.response])]

RECURSIVE for_each_account_loop(_, _, _, _, _, _)
for_each_account_loop(reg, ex, accountNames, endpoint, params, st) ==
    IF st.i > Len(accountNames) \/ st.raised.type # "None" THEN st
    ELSE
      With(accountNames[st.i], LAMBDA name :
      With([st EXCEPT !.i = @ + 1, !.attempted = Append(@, name)], LAMBDA st1 :
        IF GetRaises(reg, name)
        THEN With([st1 EXCEPT !.coreExc = RecordLookup(@, KeyError("name"))],
                  LAMBDA st2 :
               for_each_account_loop(reg, ex, accountNames, endpoint, params,
                                     st2))
        ELSE
      With(get(reg, name), LAMBDA account :
        IF account = None
        THEN [st1 EXCEPT !.raised = TypeErrorNone]
        ELSE
          With(ApiCall(ex, account, endpoint, params), LAMBDA r :
          With(AfterCall(st1, account, r), LAMBDA st2 :
            for_each_account_loop(reg, ex, accountNames, endpoint, params,
                                  st2))))))

_for_each_account(reg, ex, accountNames, endpoint, params) ==
    With(for_each_account_loop(reg, ex, accountNames, endpoint, params,
                               LoopInit), LAMBDA st : LoopExit(st))

\* orderValue = percent / 100.0 * available; orderValue / marginPerContract
\* cut to an integer instead of rounded
ComputeOrderQtyTruncating(percent, available, marginPerContract) ==
    With(RatDiv(RatMul(Rat(percent, 100), available), marginPerContract),
         LAMBDA q : q.num \div q.den)

\* orderValue = percent / 100.0 * available; round(orderValue / marginPerContract)
ComputeOrderQty(percent, available, marginPerContract) ==
    With(RatDiv(RatMul(Rat(percent, 100), available), marginPerContract),
         LAMBDA q : round(q))

Pop(params, key) == [k \in DOMAIN params \ {key} |-> params[k]]

Put(params, key, value) ==
    [k \in DOMAIN params \cup {key} |-> IF k = key THEN value ELSE params[k]]

RECURSIVE for_each_relative_loop(_, _, _, _, _, _, _, _)
for_each_relative_loop(reg, ex, accountNames, endpoint, percent, marginPerContract, params, st) ==
    IF st.i > Len(accountNames) \/ st.raised.type # "None" THEN st
    ELSE
      With(accountNames[st.i], LAMBDA name :
      With([st EXCEPT !.i = @ + 1, !.attempted = Append(@, name)], LAMBDA st1 :
        IF GetRaises(reg, name)
        THEN With([st1 EXCEPT !.coreExc = RecordLookup(@, KeyError("name"))],
                  LAMBDA st2 :
               for_each_relative_loop(reg, ex, accountNames, endpoint,
                                      percent, marginPerContract, params,
                                      st2))
        ELSE
      With(get(reg, name), LAMBDA account :
        IF account = None
        THEN [st1 EXCEPT !.raised = TypeErrorNone]
        ELSE
          With(account_available_margin(reg, ex, name), LAMBDA m :
          With([st1 EXCEPT !.net = @ \o m.net], LAMBDA st2 :
            IF Raised(m)
            THEN With([st2 EXCEPT !.coreExc = Record(@, account, m.raised)],
                      LAMBDA st3 :
                   for_each_relative_loop(reg, ex, accountNames, endpoint,
                                          percent, marginPerContract, params,
                                          st3))
            ELSE IF marginPerContract.num = 0
            THEN [st2 EXCEPT !.raised = ZeroDivisionError]
            ELSE
              With(ComputeOrderQty(percent, m.value, marginPerContract),
                   LAMBDA orderQty :
              With(Put(params, "orderQty", orderQty), LAMBDA p :
              With(ApiCall(ex, account, endpoint, p), LAMBDA r :
              With(AfterCall(st2, account, r), LAMBDA st3 :
                for_each_relative_loop(reg, ex, accountNames, endpoint,
                                       percent, marginPerContract, p,
                                       st3))))))))))

_for_each_relative(reg, ex, accountNames, endpoint, percent, marginPerContract, params) ==
    With(for_each_relative_loop(reg, ex, accountNames, endpoint, percent,
                                marginPerContract, params, LoopInit),
         LAMBDA st : LoopExit(st))

(***************************************************************************)
(* backend/core.py: instruments                                            *)
(***************************************************************************)
\* instrument_contract_value: abs(multiplier * 1e-8)
instrument_contract_value(reg, ex, accountName, symbol) ==
    With(_for_one_account(reg, ex, accountName, "instrument_get",
                          [symbol |-> symbol]), LAMBDA r :
      IF Raised(r) THEN r
      ELSE [r EXCEPT !.value = Rat(Abs(r.value.response[1].multiplier),
                                   SATOSHI)])

instrument_is_inverse(reg, ex, accountName, symbol) ==
    With(_for_one_account(reg, ex, accountName, "instrument_get",
                          [symbol |-> symbol]), LAMBDA r :
      IF Raised(r) THEN r
      ELSE [r EXCEPT !.value = r.value.response[1].isInverse])

\* price * contractValue whether or not the instrument is inverse
MarginPerContractNeverInverse(price, contractValue, inverse, net) ==
    [raised |-> NoExc, value |-> RatMul(Rat(price, 1), contractValue),
     net |-> net]

\* The last block of instrument_margin_per_contract: price * contractValue,
\* or (1 / price) * contractValue for an inverse instrument
MarginPerContract(price, contractValue, inverse, net) ==
    IF ~inverse
    THEN [raised |-> NoExc, value |-> RatMul(Rat(price, 1), contractValue),
          net |-> net]
    ELSE IF price = 0
    THEN [raised |-> ZeroDivisionError, value |-> None, net |-> net]
    ELSE [raised |-> NoExc, value |-> RatMul(Rat(1, price), contractValue),
          net |-> net]

instrument_margin_per_contract(reg, ex, accountName, symbol, price, forceContractValue, forceInverse) ==
    With(IF forceContractValue = None
         THEN instrument_contract_value(reg, ex, accountName, symbol)
         ELSE [raised |-> NoExc, value |-> forceContractValue.some,
               net |-> <<>>], LAMBDA cv :
      IF Raised(cv)
      THEN [raised |-> Exc("BitmexCoreException",
                           <<"Wasn't able to get ", symbol,
                             "s contract value: ">> \o cv.raised.text),
            value |-> None, net |-> cv.net]
      ELSE
        With(IF forceInverse = None
             THEN instrument_is_inverse(reg, ex, accountName, symbol)
             ELSE [raised |-> NoExc, value |-> forceInverse.some,
                   net |-> <<>>], LAMBDA inv :
          IF Raised(inv)
          THEN [raised |-> Exc("BitmexCoreException",
                               <<"Wasn't able to find out if ", symbol,
                                 " is inverse: ">> \o inv.raised.text),
                value |-> None, net |-> cv.net \o inv.net]
          ELSE MarginPerContract(price, cv.value, inv.value,
                                 cv.net \o inv.net)))

(***************************************************************************)
(* backend/core.py: the order tables                                       *)
(***************************************************************************)
HISTORY_COUNT == 20

\* order["orderQty"] * (-1 if order["side"] == "Sell" else 1)
ActiveQty(order) == order.orderQty * (IF order.side = "Sell" THEN -1 ELSE 1)

\* order["orderQty"] * -1 if order["side"] == "Sell" else 1: the condition
\* chooses between the product and 1
StopQty(order) == IF order.side = "Sell" THEN order.orderQty * (-1) ELSE 1

\* the same expression in history_order_info
HistoryQty(order) == IF order.side = "Sell" THEN order.orderQty * (-1) ELSE 1

ActiveInfo(order, orderValue) ==
    [orderID |-> order.orderID, symbol |-> order.symbol,
     qty |-> ActiveQty(order), orderPrice |-> order.price,
     displayQty |-> order.displayQty,
     filled |-> order.orderQty - order.leavesQty, orderValue |-> orderValue,
     remaining |-> order.leavesQty, fillPrice |-> order.avgPx,
     type |-> order.ordType, status |-> order.ordStatus,
     execInst |-> order.execInst, time |-> order.transactTime]

StopInfo(order) ==
    [orderID |-> order.orderID, symbol |-> order.symbol,
     qty |-> StopQty(order), orderPrice |-> order.price,
     filled |-> order.orderQty - order.leavesQty, stopPrice |-> order.stopPx,
     fillPrice |-> order.avgPx, type |-> order.ordType,
     status |-> order.ordStatus, execInst |-> order.execInst,
     time |-> order.transactTime]

HistoryInfo(order) ==
    [orderID |-> order.orderID, symbol |-> order.symbol,
     qty |-> HistoryQty(order), orderPrice |-> order.price,
     displayQty |-> order.displayQty,
     filled |-> order.orderQty - order.leavesQty, stopPrice |-> order.stopPx,
     fillPrice |-> order.avgPx, type |-> order.ordType,
     status |-> order.ordStatus, execInst |-> order.execInst,
     time |-> order.transactTime]

\* for order in foo["response"] of active_order_info: a Limit order asks the
\* first account of the list for the margin per contract
RECURSIVE active_orders_loop(_, _, _, _, _, _)
active_orders_loop(reg, ex, accountNames, orders, i, st) ==
    IF i > Len(orders) \/ Raised(st) THEN st
    ELSE
      With(orders[i], LAMBDA order :
        IF order.ordType \notin {"Market", "Limit"}
        THEN active_orders_loop(reg, ex, accountNames, orders, i + 1, st)
        ELSE IF order.ordType = "Limit"
        THEN
          With(instrument_margin_per_contract(reg, ex, accountNames[1],
                 order.symbol, order.price.some, None, None), LAMBDA m :
            IF Raised(m)
            THEN [st EXCEPT !.raised = m.raised, !.net = @ \o m.net]
            ELSE
              With(Some(RatMul(m.value, Rat(order.orderQty, 1))),
                   LAMBDA orderValue :
              With([st EXCEPT !.net = @ \o m.net,
                              !.orders = Append(@, ActiveInfo(order, orderValue))],
                   LAMBDA st1 :
                active_orders_loop(reg, ex, accountNames, orders, i + 1, st1))))
        ELSE
          With([st EXCEPT !.orders = Append(@, ActiveInfo(order, None))],
               LAMBDA st1 :
            active_orders_loop(reg, ex, accountNames, orders, i + 1, st1)))

\* for foo in data of active_order_info
RECURSIVE active_data_loop(_, _, _, _, _, _)
active_data_loop(reg, ex, accountNames, data, i, st) ==
    IF i > Len(data) \/ Raised(st) THEN st
    ELSE
      With(active_orders_loop(reg, ex, accountNames, data[i].response, 1,
                              [raised |-> NoExc, orders |-> <<>>,
                               net |-> st.net]), LAMBDA r :
      With([raised |-> r.raised,
            value |-> Append(st.value, [name |-> data[i].account.name,
                                        orders |-> r.orders]),
            net |-> r.net], LAMBDA st1 :
        active_data_loop(reg, ex, accountNames, data, i + 1, st1)))

active_order_info(reg, ex, accountNames) ==
    With(_for_each_account(reg, ex, accountNames, "order_get",
                           [filter |-> [open |-> TRUE]]), LAMBDA data :
      IF Raised(data)
      THEN [raised |-> data.raised, value |-> None, net |-> data.net]
      ELSE
        With(active_data_loop(reg, ex, accountNames, data.value, 1,
                              [raised |-> NoExc, value |-> <<>>,
                               net |-> data.net]), LAMBDA r :
          IF Raised(r) THEN [r EXCEPT !.value = None] ELSE r))

\* The orders of one response that a table keeps, each turned into its row
Rows(orders, Keeps(_), Row(_)) ==
    With(SelectSeq(orders, Keeps), LAMBDA kept :
      [j \in 1..Len(kept) |-> Row(kept[j])])

stop_order_info(reg, ex, accountNames) ==
    With(_for_each_account(reg, ex, accountNames, "order_get",
                           [filter |-> [open |-> TRUE]]), LAMBDA data :
      IF Raised(data)
      THEN [raised |-> data.raised, value |-> None, net |-> data.net]
      ELSE [raised |-> NoExc,
            value |-> [i \in 1..Len(data.value) |->
                         [name |-> data.value[i].account.name,
                          orders |-> Rows(data.value[i].response,
                                          LAMBDA o : o.ordType \notin
                                                       {"Market", "Limit"},
                                          StopInfo)]],
            net |-> data.net])

history_order_info(reg, ex, accountNames) ==
    With(_for_each_account(reg, ex, accountNames, "order_get",
                           [reverse |-> TRUE, count |-> HISTORY_COUNT]),
         LAMBDA data :
      IF Raised(data)
      THEN [raised |-> data.raised, value |-> None, net |-> data.net]
      ELSE [raised |-> NoExc,
            value |-> [i \in 1..Len(data.value) |->
                         [name |-> data.value[i].account.name,
                          orders |-> Rows(data.value[i].response,
                                          LAMBDA o : TRUE, HistoryInfo)]],
            net |-> data.net])

(***************************************************************************)
(* backend/core.py: the order composers                                    *)
(***************************************************************************)
TimeInForces == {"GoodTillCancel", "ImmediateOrCancel", "FillOrKill"}

Triggers == {"Mark", "Last", "Index"}

\* trigger + "Price"
TriggerPrice(trigger) ==
    CASE trigger = "Mark" -> "MarkPrice"
      [] trigger = "Last" -> "LastPrice"
      [] trigger = "Index" -> "IndexPrice"

\* sep.join(list), as the sequence of the pieces of the joined string
RECURSIVE join(_, _)
join(sep, list) ==
    IF Len(list) <= 1 THEN list
    ELSE <<Head(list), sep>> \o join(sep, Tail(list))

\* the message names the trigger, also for a bad time in force
InvalidTimeInForce(trigger) ==
    Exc("BitmexCoreException",
        <<trigger, " isn't a valid time in force. ",
          "Choose from GoodTillCancel, ImmediateOrCancel ", "and FillOrKill.">>)

InvalidTrigger(trigger) ==
    Exc("BitmexCoreException",
        <<trigger, " isn't a valid trigger. ",
          "Choose from Mark, Last and Index.">>)

IndexError == Exc("IndexError", <<"list index out of range">>)

Side(sell) == IF sell THEN "Sell" ELSE "Buy"

SameSide(side) == side

\* "Buy" if params["side"] == "Sell" else "Sell"
OppositeSide(side) == IF side = "Sell" THEN "Buy" ELSE "Sell"

\* The stop-loss block of a composer once the trigger is known to be valid:
\* the primary parameters turned into those of the mirrored Stop order.
StopLossParams(params, stopPrice, trigger) ==
    [k \in (DOMAIN params \ {"price"}) \cup {"stopPx", "execInst"} |->
        CASE k = "ordType" -> "Stop"
          [] k = "stopPx" -> stopPrice
          [] k = "side" -> OppositeSide(params.side)
          [] k = "execInst" -> join(", ", <<"ReduceOnly", TriggerPrice(trigger)>>)
          [] OTHER -> params[k]]

\* What a composer gives its caller: it returns None or raises.  net is
\* every request sent, in order; marginPerContract is None when no value
\* was computed.
Composed(raised, net, marginPerContract) ==
    [raised |-> raised, net |-> net, marginPerContract |-> marginPerContract]

\* Two request sequences merged one by one
RECURSIVE Interleave(_, _)
Interleave(s, t) ==
    IF s = <<>> THEN t
    ELSE IF t = <<>> THEN s
    ELSE <<Head(s), Head(t)>> \o Interleave(Tail(s), Tail(t))

\* A stop-loss block whose Stop orders go out between the primary orders
FixedStopLossInterleaved(reg, ex, a, params, r1) ==
    IF ~a.stopLoss THEN Composed(NoExc, r1.net, None)
    ELSE IF a.trigger \notin Triggers
    THEN Composed(InvalidTrigger(a.trigger), r1.net, None)
    ELSE With(StopLossParams(params, a.stopPrice, a.trigger), LAMBDA p :
         With(_for_each_account(reg, ex, a.accountNames, "order_post", p),
              LAMBDA r2 : Composed(r2.raised, Interleave(r1.net, r2.net), None)))

\* The stop-loss block of a fixed-quantity composer, r1 being what the
\* primary round returned
FixedStopLoss(reg, ex, a, params, r1) ==
    IF ~a.stopLoss THEN Composed(NoExc, r1.net, None)
    ELSE IF a.trigger \notin Triggers
    THEN Composed(InvalidTrigger(a.trigger), r1.net, None)
    ELSE With(StopLossParams(params, a.stopPrice, a.trigger), LAMBDA p :
         With(_for_each_account(reg, ex, a.accountNames, "order_post", p),
              LAMBDA r2 : Composed(r2.raised, r1.net \o r2.net, None)))

\* The primary round of a fixed-quantity composer, then its stop-loss block
FixedRounds(reg, ex, a, params) ==
    With(_for_each_account(reg, ex, a.accountNames, "order_post", params),
         LAMBDA r1 :
      IF Raised(r1) THEN Composed(r1.raised, r1.net, None)
      ELSE IF a.stopLoss /\ "price" \notin DOMAIN params
      THEN Composed(KeyError("price"), r1.net, None)
      ELSE FixedStopLoss(reg, ex, a, params, r1))

order_limit(reg, ex, a) ==
    IF a.timeInForce \notin TimeInForces
    THEN Composed(InvalidTimeInForce(a.trigger), <<>>, None)
    ELSE
      With([symbol |-> a.symbol, ordType |-> "Limit",
            orderQty |-> a.quantity, price |-> a.limitPrice,
            execInst |-> join(", ", IF a.reduceOnly THEN <<"ReduceOnly">>
                                    ELSE <<>>),
            timeInForce |-> a.timeInForce, side |-> Side(a.sell)],
           LAMBDA params0 :
      With(IF a.hidden THEN Put(params0, "displayQty", a.displayQty)
           ELSE params0, LAMBDA params :
        FixedRounds(reg, ex, a, params)))

order_limit_post_only(reg, ex, a) ==
    With([symbol |-> a.symbol, ordType |-> "Limit",
          orderQty |-> a.quantity, price |-> a.limitPrice,
          execInst |-> join(", ", <<"ParticipateDoNotInitiate">>
                                  \o (IF a.reduceOnly THEN <<"ReduceOnly">>
                                      ELSE <<>>)),
          side |-> Side(a.sell)], LAMBDA params :
      FixedRounds(reg, ex, a, params))

\* order_market: its parameters have no "price" to pop
order_market(reg, ex, a) ==
    With([symbol |-> a.symbol, ordType |-> "Market",
          orderQty |-> a.quantity, side |-> Side(a.sell)], LAMBDA params :
      FixedRounds(reg, ex, a, params))

LastName(accountNames) == accountNames[Len(accountNames)]

\* accountNames[0]
FirstName(accountNames) == accountNames[1]

\* The "Get margin per contract" block of a relative composer
RelativeMargin(reg, ex, a) ==
    With(IF a.accountNames = <<>>
         THEN [raised |-> IndexError, value |-> None, net |-> <<>>]
         ELSE instrument_margin_per_contract(reg, ex,
                FirstName(a.accountNames), a.symbol, a.limitPrice,
                a.forceContractValue, a.forceInverse), LAMBDA r :
      IF Raised(r)
      THEN [r EXCEPT !.raised =
              Exc("BitmexCoreException",
                  <<"Wasn't able to find out ", a.symbol,
                    "s margin per contract: ">> \o r.raised.text)]
      ELSE r)

\* for response in responses: one Stop order per primary response, with the
\* orderQty of that response; the first failure ends the loop
RECURSIVE relative_stop_loop(_, _, _, _, _, _)
relative_stop_loop(reg, ex, responses, params, i, net) ==
    IF i > Len(responses) THEN [raised |-> NoExc, net |-> net]
    ELSE
      With(Put(params, "orderQty", responses[i].response.orderQty), LAMBDA p :
      With(_for_one_account(reg, ex, responses[i].account.name, "order_post",
                            p), LAMBDA r :
      With(net \o r.net, LAMBDA net1 :
        IF Raised(r) THEN [raised |-> r.raised, net |-> net1]
        ELSE relative_stop_loop(reg, ex, responses, p, i + 1, net1))))

\* The stop-loss block of a relative composer, m being the margin per
\* contract and r1 what the primary round returned
RelativeStopLoss(reg, ex, a, params, m, r1) ==
    IF ~a.stopLoss THEN Composed(NoExc, m.net \o r1.net, m.value)
    ELSE IF a.trigger \notin Triggers
    THEN Composed(InvalidTrigger(a.trigger), m.net \o r1.net, m.value)
    ELSE With(StopLossParams(params, a.stopPrice, a.trigger), LAMBDA p :
         With(relative_stop_loop(reg, ex, r1.value, p, 1, <<>>), LAMBDA r2 :
           Composed(r2.raised, m.net \o r1.net \o r2.net, m.value)))

\* The primary round of a relative limit composer, then its stop-loss block
RelativeRounds(reg, ex, a, params, m) ==
    With(_for_each_relative(reg, ex, a.accountNames, "order_post", a.percent,
                            m.value, params), LAMBDA r1 :
      IF Raised(r1) THEN Composed(r1.raised, m.net \o r1.net, m.value)
      ELSE RelativeStopLoss(reg, ex, a, params, m, r1))

order_limit_relative(reg, ex, a) ==
    IF a.timeInForce \notin TimeInForces
    THEN Composed(InvalidTimeInForce(a.trigger), <<>>, None)
    ELSE
      With(RelativeMargin(reg, ex, a), LAMBDA m :
        IF Raised(m) THEN Composed(m.raised, m.net, None)
        ELSE
          With([symbol |-> a.symbol, ordType |-> "Limit",
                price |-> a.limitPrice,
                execInst |-> join(", ", IF a.reduceOnly THEN <<"ReduceOnly">>
                                        ELSE <<>>),
                timeInForce |-> a.timeInForce, side |-> Side(a.sell)],
               LAMBDA params : RelativeRounds(reg, ex, a, params, m)))

order_limit_relative_post_only(reg, ex, a) ==
    With(RelativeMargin(reg, ex, a), LAMBDA m :
      IF Raised(m) THEN Composed(m.raised, m.net, None)
      ELSE
        With([symbol |-> a.symbol, ordType |-> "Limit",
              price |-> a.limitPrice,
              execInst |-> join(", ", <<"ParticipateDoNotInitiate">>
                                      \o (IF a.reduceOnly THEN <<"ReduceOnly">>
                                          ELSE <<>>)),
              side |-> Side(a.sell)],
             LAMBDA params : RelativeRounds(reg, ex, a, params, m)))

order_stop_limit_relative(reg, ex, a) ==
    IF a.timeInForce \notin TimeInForces
    THEN Composed(InvalidTimeInForce(a.trigger), <<>>, None)
    ELSE
      With(RelativeMargin(reg, ex, a), LAMBDA m :
        IF Raised(m) THEN Composed(m.raised, m.net, None)
        ELSE IF a.trigger \notin Triggers
        THEN Composed(InvalidTrigger(a.trigger), m.net, m.value)
        ELSE
          With([symbol |-> a.symbol, ordType |-> "StopLimit",
                price |-> a.limitPrice, stopPx |-> a.stopPrice,
                execInst |-> join(", ", (IF a.closeOnTrigger THEN <<"Close">>
                                         ELSE <<>>)
                                        \o <<TriggerPrice(a.trigger)>>),
                timeInForce |-> a.timeInForce, side |-> Side(a.sell)],
               LAMBDA params0 :
          With(IF a.hidden THEN Put(params0, "displayQty", a.displayQty)
               ELSE params0, LAMBDA params :
          With(_for_each_relative(reg, ex, a.accountNames, "order_post",
                                  a.percent, m.value, params), LAMBDA r1 :
            Composed(r1.raised, m.net \o r1.net, m.value)))))

(***************************************************************************)
(* multithreaded/multithreaded.py: the polling objects                     *)
(*                                                                         *)
(* mt is one Multithreaded object with the threads that run() started on   *)
(* it and the thread that calls run() and stop().  Thread 0 is None.  The  *)
(* fields after caller are history: they are written, never read, by the   *)
(* operations.                                                             *)
(***************************************************************************)
MaxThreads == 2   \* run() is called at most that many times
MaxCount == 2     \* iterations and failures are counted up to that number

DELAY_MULTIPLIER_ON_FAIL == 1

Classes == {"Multithreaded", "Bot", "Accounts", "Positions"}

REQUESTS_PER_MINUTE(cls) ==
    CASE cls = "Multithreaded" -> 25
      [] cls = "Bot" -> 30
      [] cls = "Accounts" -> 15
      [] cls = "Positions" -> 20

ThreadIds == 1..MaxThreads

Min(a, b) == IF a < b THEN a ELSE b

\* Multithreaded.__init__
__init__(cls) ==
    [cls |-> cls, _kill_thread |-> FALSE, thread |-> 0, running |-> FALSE,
     seconds_remaining |-> 3600, iterations_made |-> 0, delay_multiplier |-> 1,
     pc |-> [t \in ThreadIds |-> "unborn"], caller |-> "idle",
     started |-> 0, successes |-> 0, fails |-> 0, delay |-> None,
     kill_phase |-> "none", sleeps_after |-> 0, iterations_after |-> 0,
     returned |-> FALSE, stop_failed |-> FALSE]

\* _get_delay: int(60 / REQUESTS_PER_MINUTE * delay_multiplier), and for the
\* two monitors int(60 / REQUESTS_PER_MINUTE * len(accounts.get_all()))
_get_delay(cls, delay_multiplier, reg) ==
    IF cls \in {"Accounts", "Positions"}
    THEN (60 * Len(reg)) \div REQUESTS_PER_MINUTE(cls)
    ELSE (60 * delay_multiplier) \div REQUESTS_PER_MINUTE(cls)

\* A multiplier that a success does not reset
DelayMultiplierNeverReset(ok, delay_multiplier) ==
    IF ok THEN delay_multiplier
    ELSE delay_multiplier + DELAY_MULTIPLIER_ON_FAIL

\* delay_multiplier after an iteration that returned ok
DelayMultiplierAfter(ok, delay_multiplier) ==
    IF ok THEN 1 ELSE delay_multiplier + DELAY_MULTIPLIER_ON_FAIL

\* Where a loop thread goes when it tests while self.seconds_remaining > 0
AfterTest(seconds_remaining) ==
    IF seconds_remaining > 0 THEN "sleep" ELSE "iterate"

\* run(): a new thread on _main
Run ==
    /\ mt.caller = "idle"
    /\ mt.started < MaxThreads
    /\ mt' = [mt EXCEPT !.thread = mt.started + 1,
                        !.pc[mt.started + 1] = "iterate",
                        !.running = TRUE,
                        !.started = @ + 1,
                        !.kill_phase = "none",
                        !.sleeps_after = 0,
                        !.iterations_after = 0,
                        !.returned = FALSE]
    /\ UNCHANGED <<accounts, exchange, call>>

\* Whether the only loop thread is between two ticks of its sleep phase
InSleepPhase(m) ==
    m.started = 1 /\ m.pc[1] \in {"sleep", "check", "decrement"}

\* stop() up to self.thread.join(): without a thread, None.join raises
\* AttributeError after the flag was set
Stop ==
    /\ mt.caller = "idle"
    /\ mt' = [mt EXCEPT !._kill_thread = TRUE,
                        !.caller = IF mt.thread = 0 THEN "idle" ELSE "joining",
                        !.stop_failed = @ \/ mt.thread = 0,
                        !.kill_phase = IF InSleepPhase(mt) THEN "sleep"
                                       ELSE "other",
                        !.sleeps_after = 0,
                        !.iterations_after = 0]
    /\ UNCHANGED <<accounts, exchange, call>>

\* stop() from the return of self.thread.join()
Join ==
    /\ mt.caller = "joining"
    /\ mt.pc[mt.thread] = "done"
    /\ mt' = [mt EXCEPT !.running = FALSE, !.thread = 0, !.caller = "idle",
                        !.returned = TRUE]
    /\ UNCHANGED <<accounts, exchange, call>>

\* _main: one iteration, the new multiplier and the delay that follows it
Iterate(t) ==
    /\ mt.pc[t] = "iterate"
    /\ \E ok \in BOOLEAN :
         LET multiplier == Min(DelayMultiplierAfter(ok, mt.delay_multiplier),
                               1 + MaxCount * DELAY_MULTIPLIER_ON_FAIL)
             delay == _get_delay(mt.cls, multiplier, accounts)
         IN  mt' = [mt EXCEPT
                      !.delay_multiplier = multiplier,
                      !.iterations_made = IF ok THEN Min(@ + 1, MaxCount) ELSE @,
                      !.seconds_remaining = delay,
                      !.pc[t] = AfterTest(delay),
                      !.successes = IF ok THEN Min(@ + 1, MaxCount) ELSE @,
                      !.fails = IF ok THEN 0 ELSE Min(@ + 1, MaxCount),
                      !.delay = Some(delay),
                      !.iterations_after = IF mt.kill_phase = "none" THEN @
                                           ELSE Min(@ + 1, 2)]
    /\ UNCHANGED <<accounts, exchange, call>>

\* sleep(1) returns
Sleep(t) ==
    /\ mt.pc[t] = "sleep"
    /\ mt' = [mt EXCEPT !.pc[t] = "check",
                        !.sleeps_after = IF mt.kill_phase = "none" THEN @
                                         ELSE Min(@ + 1, 2)]
    /\ UNCHANGED <<accounts, exchange, call>>

\* if self._kill_thread
Check(t) ==
    /\ mt.pc[t] = "check"
    /\ mt' = [mt EXCEPT !.pc[t] = IF mt._kill_thread THEN "clear"
                                  ELSE "decrement"]
    /\ UNCHANGED <<accounts, exchange, call>>

\* self._kill_thread = False; run = False; break
Clear(t) ==
    /\ mt.pc[t] = "clear"
    /\ mt' = [mt EXCEPT !._kill_thread = FALSE, !.pc[t] = "done"]
    /\ UNCHANGED <<accounts, exchange, call>>

\* self.seconds_remaining -= 1, and the test of the inner loop
Decrement(t) ==
    /\ mt.pc[t] = "decrement"
    /\ mt' = [mt EXCEPT !.seconds_remaining = @ - 1,
                        !.pc[t] = AfterTest(mt.seconds_remaining - 1)]
    /\ UNCHANGED <<accounts, exchange, call>>

(***************************************************************************)
(* State and operations                                                    *)
(***************************************************************************)
Idle == [op |-> "idle"]

Init ==
    /\ accounts = <<>>
    /\ exchange = [k \in Keys |-> "ok"]
    /\ call = Idle
    /\ mt = __init__("Multithreaded")

\* accounts.new
New ==
    /\ call = Idle
    /\ \E acc \in KnownAccounts :
         IF acc.name \in RegisteredNames(accounts)
         THEN /\ accounts' = accounts
              /\ call' = [op |-> "new", name |-> acc.name,
                          raised |-> Exc("BitmexAccountsException",
                                         <<"Account '", acc.name,
                                           "' already exists.">>)]
         ELSE /\ accounts' = Append(accounts, acc)
              /\ call' = [op |-> "new", name |-> acc.name, raised |-> NoExc]
    /\ UNCHANGED <<exchange, mt>>

\* accounts.delete
Delete ==
    /\ call = Idle
    /\ \E name \in Names :
         /\ accounts' = delete_loop(accounts, name, 1)
         /\ call' = [op |-> "delete", name |-> name, raised |-> NoExc]
    /\ UNCHANGED <<exchange, mt>>

\* The exchange starts to answer the requests of one api key differently.
ExchangeStep ==
    /\ call = Idle
    /\ \E k \in Keys, b \in Behaviours : exchange' = [exchange EXCEPT ![k] = b]
    /\ UNCHANGED <<accounts, call, mt>>

\* account_margin_stats: _for_each_account over user_margin_get
AccountMarginStats ==
    /\ call = Idle
    /\ \E names \in NameLists(MaxNames) :
         call' = [op |-> "_for_each_account", names |-> names,
                  endpoint |-> "user_margin_get"]
                 @@ _for_each_account(accounts, exchange, names,
                                      "user_margin_get", [currency |-> "XBt"])
    /\ UNCHANGED <<accounts, exchange, mt>>

\* instrument_tick: _for_one_account over instrument_get
InstrumentTick ==
    /\ call = Idle
    /\ \E name \in Names, symbol \in DOMAIN Instruments :
         call' = [op |-> "_for_one_account", name |-> name,
                  endpoint |-> "instrument_get"]
                 @@ _for_one_account(accounts, exchange, name,
                                     "instrument_get", [symbol |-> symbol])
    /\ UNCHANGED <<accounts, exchange, mt>>

Percents == {10, 50}

\* marginPerContract values handed to _for_each_relative (in bitcoin)
MarginsPerContract == {Rat(1, 1000), Rat(1, 3), Rat(1, 2), Rat(1, 1)}

\* _for_each_relative called with a given margin per contract
ForEachRelative ==
    /\ call = Idle
    /\ \E names \in NameLists(MaxNames), percent \in Percents,
          mpc \in MarginsPerContract :
         call' = [op |-> "_for_each_relative", names |-> names,
                  endpoint |-> "order_post", percent |-> percent,
                  marginPerContract |-> mpc]
                 @@ _for_each_relative(accounts, exchange, names, "order_post",
                                       percent, mpc,
                                       [symbol |-> "XBTUSD", ordType |-> "Market",
                                        side |-> "Buy"])
    /\ UNCHANGED <<accounts, exchange, mt>>

Symbols == DOMAIN Instruments

TimeInForceInputs == {"GoodTillCancel", "Bogus"}

TriggerInputs == {"Last", "Mark", "Bogus"}

FixedArgs ==
    [accountNames : NameLists(MaxOrderNames), symbol : {"XBTUSD"},
     quantity : {5}, limitPrice : {200}, sell : BOOLEAN, hidden : {FALSE},
     displayQty : {0}, reduceOnly : {FALSE}, stopLoss : BOOLEAN,
     stopPrice : {150}, trigger : TriggerInputs]

\* forceContractValue and forceInverse: both left to the exchange, or both given
Forces ==
    { [forceContractValue |-> None, forceInverse |-> None],
      [forceContractValue |-> Some(Rat(1, 1000)),
       forceInverse |-> Some(FALSE)] }

RelativeArgs ==
    [accountNames : NameLists(MaxOrderNames), symbol : Symbols,
     percent : {10}, limitPrice : {200}, sell : BOOLEAN, hidden : {FALSE},
     displayQty : {0}, reduceOnly : {FALSE}, closeOnTrigger : {FALSE},
     stopLoss : BOOLEAN, stopPrice : {150}, trigger : {"Last", "Bogus"}]

WithForce(a, f) ==
    [k \in DOMAIN a \cup DOMAIN f |-> IF k \in DOMAIN f THEN f[k] ELSE a[k]]

OrderLimit ==
    /\ call = Idle
    /\ \E a \in FixedArgs, tif \in TimeInForceInputs :
         LET args == Put(a, "timeInForce", tif) IN
         call' = [op |-> "order_limit", args |-> args]
                 @@ order_limit(accounts, exchange, args)
    /\ UNCHANGED <<accounts, exchange, mt>>

OrderLimitPostOnly ==
    /\ call = Idle
    /\ \E a \in FixedArgs :
         call' = [op |-> "order_limit_post_only", args |-> a]
                 @@ order_limit_post_only(accounts, exchange, a)
    /\ UNCHANGED <<accounts, exchange, mt>>

OrderMarket ==
    /\ call = Idle
    /\ \E a \in FixedArgs :
         call' = [op |-> "order_market", args |-> a]
                 @@ order_market(accounts, exchange, a)
    /\ UNCHANGED <<accounts, exchange, mt>>

OrderLimitRelative ==
    /\ call = Idle
    /\ \E a \in RelativeArgs, f \in Forces, tif \in TimeInForceInputs :
         LET args == Put(WithForce(a, f), "timeInForce", tif) IN
         call' = [op |-> "order_limit_relative", args |-> args]
                 @@ order_limit_relative(accounts, exchange, args)
    /\ UNCHANGED <<accounts, exchange, mt>>

OrderLimitRelativePostOnly ==
    /\ call = Idle
    /\ \E a \in RelativeArgs, f \in Forces :
         LET args == WithForce(a, f) IN
         call' = [op |-> "order_limit_relative_post_only", args |-> args]
                 @@ order_limit_relative_post_only(accounts, exchange, args)
    /\ UNCHANGED <<accounts, exchange, mt>>

OrderStopLimitRelative ==
    /\ call = Idle
    /\ \E a \in RelativeArgs, f \in Forces, tif \in TimeInForceInputs :
         LET args == Put(WithForce(a, f), "timeInForce", tif) IN
         call' = [op |-> "order_stop_limit_relative", args |-> args]
                 @@ order_stop_limit_relative(accounts, exchange, args)
    /\ UNCHANGED <<accounts, exchange, mt>>

Prices == {0, 200}

\* instrument_margin_per_contract called on its own, each override given or
\* left out
InstrumentMarginPerContract ==
    /\ call = Idle
    /\ \E name \in Names, symbol \in Symbols, price \in Prices,
          fcv \in {None, Some(Rat(1, 1000))},
          fi \in {None, Some(TRUE), Some(FALSE)} :
         call' = [op |-> "instrument_margin_per_contract", name |-> name,
                  symbol |-> symbol, price |-> price,
                  forceContractValue |-> fcv, forceInverse |-> fi]
                 @@ instrument_margin_per_contract(accounts, exchange, name,
                                                   symbol, price, fcv, fi)
    /\ UNCHANGED <<accounts, exchange, mt>>

AccountA == CHOOSE acc \in KnownAccounts : acc.name = "a"

AccountB == CHOOSE acc \in KnownAccounts : acc.name = "b"

\* What load can find at the savefile's place: no file, a file that is not
\* json, or a json list of accounts, written by save or by hand
SaveFiles ==
    { [kind |-> "missing", value |-> <<>>],
      [kind |-> "garbage", value |-> <<>>],
      [kind |-> "json", value |-> <<>>],
      [kind |-> "json", value |-> <<AccountA>>],
      [kind |-> "json", value |-> <<AccountA, AccountB>>],
      [kind |-> "json", value |-> <<AccountA, AccountA>>] }

\* accounts.load: the accounts of the file replace the loaded ones
Load ==
    /\ call = Idle
    /\ \E savefile \in SaveFiles :
         IF savefile.kind = "missing"
         THEN /\ accounts' = accounts
              /\ call' = [op |-> "load", savefile |-> savefile,
                          raised |-> Exc("BitmexAccountsException",
                                         <<"Internal Error: ",
                                           "No such file or directory",
                                           "Does '", "./accounts",
                                           "' really exist?">>)]
         ELSE IF savefile.kind = "garbage"
         THEN /\ accounts' = accounts
              /\ call' = [op |-> "load", savefile |-> savefile,
                          raised |-> Exc("BitmexAccountsException",
                                         <<"Internal Error: ",
                                           "Expecting value",
                                           "Is '", "./accounts",
                                           "' really an account savefile?">>)]
         ELSE /\ accounts' = savefile.value
              /\ call' = [op |-> "load", savefile |-> savefile,
                          raised |-> NoExc]
    /\ UNCHANGED <<exchange, mt>>

\* core.active_order_info
ActiveOrderInfo ==
    /\ call = Idle
    /\ \E names \in NameLists(MaxOrderNames) :
         call' = [op |-> "active_order_info", names |-> names]
                 @@ active_order_info(accounts, exchange, names)
    /\ UNCHANGED <<accounts, exchange, mt>>

\* core.stop_order_info
StopOrderInfo ==
    /\ call = Idle
    /\ \E names \in NameLists(MaxOrderNames) :
         call' = [op |-> "stop_order_info", names |-> names]
                 @@ stop_order_info(accounts, exchange, names)
    /\ UNCHANGED <<accounts, exchange, mt>>

\* core.history_order_info
HistoryOrderInfo ==
    /\ call = Idle
    /\ \E names \in NameLists(MaxOrderNames) :
         call' = [op |-> "history_order_info", names |-> names]
                 @@ history_order_info(accounts, exchange, names)
    /\ UNCHANGED <<accounts, exchange, mt>>

\* An account entry that lost its name
NamelessEntry == [key |-> "kb", secret |-> "sb", host |-> HOST]

\* Savefiles edited by hand: json lists that save would not write
EditedSaveFiles ==
    { <<AccountA, NamelessEntry>>, <<NamelessEntry, AccountA>>,
      <<AccountA, AccountB>> }

\* accounts.load of a savefile that is a json list: whatever entries it
\* holds replace the loaded accounts
LoadEdited ==
    /\ call = Idle
    /\ \E value \in EditedSaveFiles :
         /\ accounts' = value
         /\ call' = [op |-> "load", savefile |-> [kind |-> "json",
                                                 value |-> value],
                     raised |-> NoExc]
    /\ UNCHANGED <<exchange, mt>>

\* The caller takes the return value or the exception.
Return ==
    /\ call # Idle
    /\ call' = Idle
    /\ UNCHANGED <<accounts, exchange, mt>>

Next ==
    \/ New
    \/ Delete
    \/ ExchangeStep
    \/ AccountMarginStats
    \/ InstrumentTick
    \/ ForEachRelative
    \/ OrderLimit
    \/ OrderLimitPostOnly
    \/ OrderMarket
    \/ OrderLimitRelative
    \/ OrderLimitRelativePostOnly
    \/ OrderStopLimitRelative
    \/ InstrumentMarginPerContract
    \/ Load
    \/ Return

Spec == Init /\ [][Next]_vars

(***************************************************************************)
(* Vocabulary of the properties                                            *)
(***************************************************************************)
FanoutOps == {"_for_each_account", "_for_each_relative"}

FixedComposerOps == {"order_limit", "order_limit_post_only", "order_market"}

StopLossRelativeOps == {"order_limit_relative", "order_limit_relative_post_only"}

RelativeComposerOps == StopLossRelativeOps \cup {"order_stop_limit_relative"}

ComposerOps == FixedComposerOps \cup RelativeComposerOps

Registered(name) == name \in RegisteredNames(accounts)

\* The api key registered under a name
KeyOf(name) == (CHOOSE acc \in KnownAccounts : acc.name = name).key

MarginFails(name) == exchange[KeyOf(name)] \in {"down", "noMargin"}

OrderFails(name) == exchange[KeyOf(name)] \in {"down", "reject"}

\* Whether the i-th name of a fan-out fails at the exchange
CallFails(c, i) ==
    IF c.op = "_for_each_relative"
    THEN MarginFails(c.names[i]) \/ OrderFails(c.names[i])
    ELSE MarginFails(c.names[i])

OkIdx(c) == {i \in 1..Len(c.names) : Registered(c.names[i]) /\ ~CallFails(c, i)}

LookupFailedIdx(c) == {i \in 1..Len(c.names) : ~Registered(c.names[i])}

CallFailedIdx(c) == {i \in 1..Len(c.names) : Registered(c.names[i]) /\ CallFails(c, i)}

IsPrimaryOrder(req) == req.endpoint = "order_post" /\ req.params.ordType # "Stop"

IsStopOrder(req) == req.endpoint = "order_post" /\ req.params.ordType = "Stop"

IsValidationError(e) ==
    /\ e.type = "BitmexCoreException"
    /\ Len(e.text) >= 2
    /\ e.text[2] \in {" isn't a valid time in force. ", " isn't a valid trigger. "}

\* q is x rounded to the nearest integer, a tie going to the even one
IsNearestEven(q, x) ==
    LET d == 2 * Abs(x.num - q * x.den)
    IN  d <= x.den /\ (d = x.den => q % 2 = 0)

\* percent / 100 * availableMargin * 1e-8 / marginPerContract for an api key
ExactQty(percent, key, marginPerContract) ==
    RatDiv(RatMul(Rat(percent, 100), Rat(AvailableMargin[key], SATOSHI)),
           marginPerContract)

(***************************************************************************)
(* C1: _for_each_account and _for_each_relative never abort mid-batch:     *)
(* when the operation returns or raises, every name of the list has been   *)
(* attempted, whatever happened to the earlier names.                      *)
(***************************************************************************)
C1_NeverAbortsMidBatch ==
    call.op \in FanoutOps => call.attempted = call.names

(***************************************************************************)
(* C2: after _for_each_account the result list has exactly one entry per   *)
(* name whose lookup and call both succeeded, and the aggregate error has  *)
(* exactly one entry per other name: without an account when the lookup    *)
(* failed, with the account when the call failed.                          *)
(***************************************************************************)
C2_OneEntryPerName ==
    call.op = "_for_each_account" =>
        /\ Len(call.result) = Cardinality(OkIdx(call))
        /\ Len(call.coreExc.exceptions)
             = Cardinality(LookupFailedIdx(call)) + Cardinality(CallFailedIdx(call))
        /\ Len(call.coreExc.accounts) = Cardinality(CallFailedIdx(call))

(***************************************************************************)
(* C3: a fan-out raises the aggregate error if and only if at least one    *)
(* name failed (lookup, margin fetch or API call); when no name failed it  *)
(* returns one result per name of the list, duplicates counted.            *)
(***************************************************************************)
C3_AggregateIffSomeFailed ==
    call.op \in FanoutOps =>
        /\ call.raised.type = "BitmexCoreMultiException"
             <=> OkIdx(call) # 1..Len(call.names)
        /\ OkIdx(call) = 1..Len(call.names) =>
             /\ call.raised = NoExc
             /\ Len(call.value) = Len(call.names)

(***************************************************************************)
(* C4: a relative order with stopLoss placed across several registered     *)
(* accounts: exactly the accounts whose primary order succeeded receive a  *)
(* mirrored Stop order.                                                    *)
(***************************************************************************)
C4_StopForEachSuccessfulPrimary ==
    /\ call.op \in StopLossRelativeOps
    /\ call.args.stopLoss
    /\ call.args.trigger \in Triggers
    /\ \A i \in 1..Len(call.args.accountNames) :
         Registered(call.args.accountNames[i])
    /\ \A k \in Keys : exchange[k] \in {"ok", "reject"}
    => {call.net[i].key : i \in {j \in 1..Len(call.net) : IsStopOrder(call.net[j])}}
       = {call.net[i].key : i \in {j \in 1..Len(call.net) :
                                     IsPrimaryOrder(call.net[j]) /\ call.net[j].ok}}

(***************************************************************************)
(* C5: a composer call that raises a validation error (bad timeInForce or  *)
(* bad trigger) has sent no request: no instrument lookup, no margin       *)
(* query, no order.                                                        *)
(***************************************************************************)
C5_ValidationBeforeNetwork ==
    call.op \in ComposerOps /\ IsValidationError(call.raised) => call.net = <<>>

(***************************************************************************)
(* C6: any failure of _for_one_account, a name missing from the registry   *)
(* or a failing API call, is raised as a core error whose text starts with *)
(* the account name.                                                       *)
(***************************************************************************)
C6_CoreErrorPrefixedWithName ==
    call.op = "_for_one_account" /\ Raised(call) =>
        /\ call.raised.type = "BitmexCoreException"
        /\ call.raised.text[1] = call.name

(***************************************************************************)
(* C7: in _for_each_relative, when fetching the available margin fails for *)
(* an account, the failure is recorded as that account's error, no order   *)
(* is sent for that account, and the remaining names are still processed.  *)
(***************************************************************************)
C7_MarginFailureSkipsOnlyThatAccount ==
    call.op = "_for_each_relative" =>
        \A i \in 1..Len(call.attempted) :
            Registered(call.names[i]) /\ MarginFails(call.names[i]) =>
                /\ \E k \in 1..Len(call.coreExc.accounts) :
                     call.coreExc.accounts[k].name = call.names[i]
                /\ \A k \in 1..Len(call.net) :
                     ~(call.net[k].endpoint = "order_post"
                       /\ call.net[k].key = KeyOf(call.names[i]))
                /\ call.attempted = call.names

(***************************************************************************)
(* C8: every order sent by _for_each_relative carries the orderQty         *)
(* round((percent/100 * availableMargin) / marginPerContract) of the       *)
(* available margin of the account it is sent for.                         *)
(***************************************************************************)
C8_QtyFromOwnMargin ==
    call.op = "_for_each_relative" =>
        \A i \in 1..Len(call.net) :
            call.net[i].endpoint = "order_post" =>
                IsNearestEven(call.net[i].params.orderQty,
                              ExactQty(call.percent, call.net[i].key,
                                       call.marginPerContract))

\* percent=10, marginPerContract=0.001: 100 contracts for the account with
\* 1.0 available, then 250 for the one with 2.5
C8_Witness ==
    /\ call.op = "_for_each_relative"
    /\ call.percent = 10
    /\ call.marginPerContract = Rat(1, 1000)
    /\ \E i, j \in 1..Len(call.net) :
         /\ i < j
         /\ call.net[i].endpoint = "order_post" /\ call.net[i].key = "ka"
         /\ call.net[i].params.orderQty = 100
         /\ call.net[j].endpoint = "order_post" /\ call.net[j].key = "kb"
         /\ call.net[j].params.orderQty = 250

\* The time in force of a composer call is valid, or the composer takes none
TimeInForceOk(c) ==
    "timeInForce" \in DOMAIN c.args => c.args.timeInForce \in TimeInForces

InstrumentLookups(c) ==
    {i \in 1..Len(c.net) : c.net[i].endpoint = "instrument_get"}

NeedsLookup(a) == a.forceContractValue = None \/ a.forceInverse = None

\* price * contractValue, or contractValue / price for an inverse instrument
ExpectedMargin(a) ==
    LET cv == IF a.forceContractValue = None
              THEN Rat(Abs(Instruments[a.symbol].multiplier), SATOSHI)
              ELSE a.forceContractValue.some
        inverse == IF a.forceInverse = None
                   THEN Instruments[a.symbol].isInverse
                   ELSE a.forceInverse.some
    IN  IF inverse THEN RatDiv(cv, Rat(a.limitPrice, 1))
        ELSE RatMul(Rat(a.limitPrice, 1), cv)

FirstRegistered(names) ==
    names[CHOOSE i \in 1..Len(names) :
            /\ Registered(names[i])
            /\ \A j \in 1..(i - 1) : ~Registered(names[j])]

(***************************************************************************)
(* C9 as stated: a relative composer computes margin-per-contract exactly  *)
(* once, using the first account of the list that resolves.                *)
(***************************************************************************)
C9_FirstResolvingAccount ==
    /\ call.op \in RelativeComposerOps
    /\ TimeInForceOk(call)
    /\ NeedsLookup(call.args)
    /\ \E i \in 1..Len(call.args.accountNames) :
         Registered(call.args.accountNames[i])
    /\ \A k \in Keys : exchange[k] = "ok"
    => /\ call.marginPerContract # None
       /\ InstrumentLookups(call) # {}
       /\ \A i \in InstrumentLookups(call) :
            call.net[i].key = KeyOf(FirstRegistered(call.args.accountNames))

(***************************************************************************)
(* C9 amended: a relative composer computes margin-per-contract at most    *)
(* once, with the credentials of the first name of the list whether or not *)
(* it resolves; when that name is missing and a lookup is needed the call  *)
(* raises a core error and sends nothing; the value computed is the one    *)
(* used for the quantity of every account of the batch.                    *)
(***************************************************************************)
C9_FirstNameOnly ==
    call.op \in RelativeComposerOps /\ TimeInForceOk(call) =>
      LET names == call.args.accountNames IN
        /\ \A i \in InstrumentLookups(call) :
             /\ names # <<>>
             /\ Registered(names[1])
             /\ call.net[i].key = KeyOf(names[1])
        /\ Cardinality(InstrumentLookups(call)) <= 2
        /\ NeedsLookup(call.args) /\ (names = <<>> \/ ~Registered(names[1])) =>
             /\ call.raised.type = "BitmexCoreException"
             /\ call.marginPerContract = None
             /\ call.net = <<>>
        /\ call.marginPerContract # None =>
             /\ call.marginPerContract = ExpectedMargin(call.args)
             /\ \A i \in 1..Len(call.net) :
                  IsPrimaryOrder(call.net[i]) =>
                    IsNearestEven(call.net[i].params.orderQty,
                                  ExactQty(call.args.percent, call.net[i].key,
                                           ExpectedMargin(call.args)))

\* two accounts: both instrument lookups go out under the first name's key,
\* and the second account's order is sized with the same value
C9_Witness ==
    /\ call.op = "order_limit_relative"
    /\ call.args.accountNames = <<"a", "b">>
    /\ Cardinality(InstrumentLookups(call)) = 2
    /\ \A i \in InstrumentLookups(call) : call.net[i].key = "ka"
    /\ \E i \in 1..Len(call.net) :
         IsPrimaryOrder(call.net[i]) /\ call.net[i].key = "kb" /\ call.net[i].ok

ExpectedExecInst(trigger) ==
    CASE trigger = "Mark" -> <<"ReduceOnly", ", ", "MarkPrice">>
      [] trigger = "Last" -> <<"ReduceOnly", ", ", "LastPrice">>
      [] trigger = "Index" -> <<"ReduceOnly", ", ", "IndexPrice">>

(***************************************************************************)
(* C10: every mirrored stop-loss order sent by a composer has ordType      *)
(* Stop, the side opposite to the primary order's, stopPx = stopPrice,     *)
(* execInst "ReduceOnly, <trigger>Price" and no limit price; its orderQty  *)
(* is the fixed quantity for a fixed-size composer and, for a relative     *)
(* one, the orderQty of the same account's primary order response.         *)
(***************************************************************************)
C10_MirroredStop ==
    call.op \in ComposerOps =>
      \A i \in 1..Len(call.net) :
        IsStopOrder(call.net[i]) =>
          LET p == call.net[i].params IN
            /\ call.args.stopLoss
            /\ p.side = (IF call.args.sell THEN "Buy" ELSE "Sell")
            /\ p.stopPx = call.args.stopPrice
            /\ p.execInst = ExpectedExecInst(call.args.trigger)
            /\ "price" \notin DOMAIN p
            /\ IF call.op \in FixedComposerOps
               THEN p.orderQty = call.args.quantity
               ELSE \E j \in 1..(i - 1) :
                      /\ IsPrimaryOrder(call.net[j])
                      /\ call.net[j].ok
                      /\ call.net[j].key = call.net[i].key
                      /\ call.net[j].response.orderQty = p.orderQty

\* a relative post-only sell: the primary of 50 contracts is mirrored by a
\* Buy Stop of 50, next to another account's 20
C10_Witness ==
    /\ call.op = "order_limit_relative_post_only"
    /\ call.args.sell
    /\ \E i, j \in 1..Len(call.net) :
         /\ IsStopOrder(call.net[i]) /\ call.net[i].key = "kb"
         /\ call.net[i].params.orderQty = 50
         /\ call.net[i].params.side = "Buy"
         /\ IsStopOrder(call.net[j]) /\ call.net[j].key = "ka"
         /\ call.net[j].params.orderQty = 20

\* The primary orders of a composer call that the exchange accepted
OkPrimaries(c) == {i \in 1..Len(c.net) : IsPrimaryOrder(c.net[i]) /\ c.net[i].ok}

StopOrders(c) == {i \in 1..Len(c.net) : IsStopOrder(c.net[i])}

(***************************************************************************)
(* C11: order_market called with stopLoss=True and a valid trigger sends,  *)
(* after the primary market orders have all succeeded, one mirrored Stop   *)
(* order per account.                                                      *)
(***************************************************************************)
C11_MarketStopPerAccount ==
    /\ call.op = "order_market"
    /\ call.args.stopLoss
    /\ call.args.trigger \in Triggers
    /\ call.args.accountNames # <<>>
    /\ Cardinality(OkPrimaries(call)) = Len(call.args.accountNames)
    => /\ call.raised = NoExc
       /\ Cardinality(StopOrders(call)) = Len(call.args.accountNames)

(***************************************************************************)
(* backend/api.py: the transport                                           *)
(*                                                                         *)
(* A string is the sequence of its tokens: a token is one character, or a  *)
(* word that holds none of the delimiters the code looks at.  A Python     *)
(* value that may be of several types carries its type.  The clock is read *)
(* in milliseconds.                                                        *)
(***************************************************************************)
PyStr(text) == [type |-> "str", text |-> text]

PyBytes(text) == [type |-> "bytes", text |-> text]

PyInt(n) == [type |-> "int", n |-> n]

API_ROOT == <<"/", "api", "/", "v1", "/">>

LIFE == 5

Digit(d) == <<"0", "1", "2", "3", "4", "5", "6", "7", "8", "9">>[d + 1]

\* str() of an int
RECURSIVE str(_)
str(n) ==
    IF n < 0 THEN <<"-">> \o str(-n)
    ELSE IF n < 10 THEN <<Digit(n)>>
    ELSE str(n \div 10) \o <<Digit(n % 10)>>

\* The first position of s that holds one of the tokens, Len(s) + 1 if none
IndexOf(s, tokens) ==
    IF \E i \in 1..Len(s) : s[i] \in tokens
    THEN CHOOSE i \in 1..Len(s) :
           s[i] \in tokens /\ \A j \in 1..(i - 1) : s[j] \notin tokens
    ELSE Len(s) + 1

\* urllib.parse.urlparse: scheme://netloc, then the fragment is cut at the
\* first "#" and the query at the first "?" of what is left
urlparse(url) ==
    LET hasNetloc == Len(url) >= 4 /\ url[2] = ":" /\ url[3] = "/" /\ url[4] = "/"
        afterScheme == IF hasNetloc THEN SubSeq(url, 5, Len(url)) ELSE url
        n == IF hasNetloc THEN IndexOf(afterScheme, {"/", "?", "#"}) ELSE 1
        rest == SubSeq(afterScheme, n, Len(afterScheme))
        f == IndexOf(rest, {"#"})
        noFragment == SubSeq(rest, 1, f - 1)
        q == IndexOf(noFragment, {"?"})
    IN  [scheme |-> IF hasNetloc THEN <<url[1]>> ELSE <<>>,
         netloc |-> SubSeq(afterScheme, 1, n - 1),
         path |-> SubSeq(noFragment, 1, q - 1),
         query |-> SubSeq(noFragment, q + 1, Len(noFragment)),
         fragment |-> SubSeq(rest, f + 1, Len(rest))]

\* urllib.parse.urljoin for a path that starts with "/": the path replaces
\* the base's
urljoin(base, path) ==
    LET b == urlparse(base) IN b.scheme \o <<":", "/", "/">> \o b.netloc \o path

\* urllib.parse.quote_plus of one token
QuoteToken(t) ==
    CASE t = " " -> "+"
      [] t = "\"" -> "%22"
      [] t = "#" -> "%23"
      [] t = "&" -> "%26"
      [] t = "+" -> "%2B"
      [] t = "," -> "%2C"
      [] t = "/" -> "%2F"
      [] t = ":" -> "%3A"
      [] t = "=" -> "%3D"
      [] t = "?" -> "%3F"
      [] t = "{" -> "%7B"
      [] t = "}" -> "%7D"
      [] OTHER -> t

quote_plus(s) == [i \in 1..Len(s) |-> QuoteToken(s[i])]

\* json.dumps of a str or an int
DumpsValue(v) ==
    IF v.type = "str" THEN <<"\"">> \o v.text \o <<"\"">> ELSE str(v.n)

\* json.dumps of a dict, given as the sequence of its items
RECURSIVE DumpsItems(_)
DumpsItems(items) ==
    IF items = <<>> THEN <<>>
    ELSE <<"\"", Head(items).key, "\"", ":", " ">> \o DumpsValue(Head(items).value)
         \o (IF Len(items) > 1 THEN <<",", " ">> ELSE <<>>)
         \o DumpsItems(Tail(items))

dumps(params) == <<"{">> \o DumpsItems(params) \o <<"}">>

\* _json_sanitize: every value that is not a str becomes its json
_json_sanitize(params) ==
    [i \in 1..Len(params) |->
        IF params[i].value.type = "str" THEN params[i]
        ELSE [key |-> params[i].key,
              value |-> PyStr(DumpsValue(params[i].value))]]

\* urllib.parse.urlencode of a dict of strs
RECURSIVE urlencode(_)
urlencode(params) ==
    IF params = <<>> THEN <<>>
    ELSE quote_plus(<<Head(params).key>>) \o <<"=">>
         \o quote_plus(Head(params).value.text)
         \o (IF Len(params) > 1 THEN <<"&">> ELSE <<>>)
         \o urlencode(Tail(params))

\* hmac.new(secret, message, sha256).hexdigest(): the digest stands for the
\* pair it was computed from
hmac_sha256(secret, message) ==
    [digestmod |-> "sha256", key |-> secret, message |-> message]

\* A message whose path leaves the query string out
SignedMessageNoQuery(verb, url, json, expires) ==
    verb \o urlparse(url).path \o str(expires) \o json.text

\* The signed message: verb + path + str(expires) + json
SignedMessage(verb, url, json, expires) ==
    LET parsedURL == urlparse(url)
        path == IF parsedURL.query # <<>>
                THEN parsedURL.path \o <<"?">> \o parsedURL.query
                ELSE parsedURL.path
    IN  verb \o path \o str(expires) \o json.text

\* A signature that leaves the body out of the message
_generate_signature_no_body(secret, verb, url, json, expires) ==
    hmac_sha256(secret, SignedMessage(verb, url, PyStr(<<>>), expires))

_generate_signature(secret, verb, url, json, expires) ==
    hmac_sha256(secret, SignedMessage(verb, url, json, expires))

\* Headers whose expiry is the clock plus the life asked for
_generate_headers_life(now, life, key, secret, verb, url, json) ==
    With((now \div 1000) + life, LAMBDA expires :
      [h \in {"api-key", "api-expires", "api-signature", "content-type"} |->
         CASE h = "api-key" -> key
           [] h = "api-expires" -> str(expires)
           [] h = "api-signature" ->
                _generate_signature(secret, verb, url, json, expires)
           [] h = "content-type" -> "application/json"])

\* _generate_headers: expires = int(time.time()) + 5, now being what
\* time.time() returned; life is not read
_generate_headers(now, life, key, secret, verb, url, json) ==
    With((now \div 1000) + 5, LAMBDA expires :
      [h \in {"api-key", "api-expires", "api-signature", "content-type"} |->
         CASE h = "api-key" -> key
           [] h = "api-expires" -> str(expires)
           [] h = "api-signature" ->
                _generate_signature(secret, verb, url, json, expires)
           [] h = "content-type" -> "application/json"])

NegativeLifeBelowMinusOne(life) == life < -1

\* if life < 0
NegativeLife(life) == life < 0

RequestLifeNegative(life) ==
    Exc("BitmexApiException",
        <<"Request life of ">> \o str(life) \o <<" is negative">>)

UnrecognizedOperation(verb) ==
    Exc("BitmexApiException",
        <<"Internal Error: Unrecognized http operation: ">> \o verb
        \o <<" (should be all uppercase).">>)

JSONDecodeError == Exc("JSONDecodeError", <<"Expecting value">>)

\* What a transport call gives its caller; signed tells whether the headers
\* were generated and http is the requests it sent
Transported(raised, value, signed, http) ==
    [raised |-> raised, value |-> value, signed |-> signed, http |-> http]

\* responseData = loads(response.text), then the status check
HandleResponse(http, response) ==
    IF response.text.kind # "json" THEN Transported(JSONDecodeError, None, TRUE, http)
    ELSE With(response.text.value, LAMBDA responseData :
      IF response.status_code = 200 THEN Transported(NoExc, responseData, TRUE, http)
      ELSE IF "error" \notin DOMAIN responseData
      THEN Transported(KeyError("error"), None, TRUE, http)
      ELSE Transported(
             Exc("BitmexApiException",
                 str(response.status_code)
                 \o <<" ", responseData.error.name, ": ",
                      responseData.error.message>>),
             None, TRUE, http))

\* _get; now is the clock read while signing and response what the server
\* answers to the request
_get(host, key, secret, path, life, params, now, response) ==
    IF NegativeLife(life) THEN Transported(RequestLifeNegative(life), None, FALSE, <<>>)
    ELSE
      With(IF params # <<>>
           THEN urljoin(host, API_ROOT \o path) \o <<"?">>
                \o urlencode(_json_sanitize(params))
           ELSE urljoin(host, API_ROOT \o path), LAMBDA url :
      With(_generate_headers(now, life, key, secret, <<"GET">>, url,
                             PyStr(<<>>)), LAMBDA headers :
        HandleResponse(<<[verb |-> <<"GET">>, url |-> url,
                          headers |-> headers, data |-> None]>>, response)))

_put_post_delete(host, key, secret, path, verb, life, params, now, response) ==
    IF NegativeLife(life) THEN Transported(RequestLifeNegative(life), None, FALSE, <<>>)
    ELSE
      With(urljoin(host, API_ROOT \o path), LAMBDA url :
      With(dumps(params), LAMBDA json :
      With(_generate_headers(now, life, key, secret, verb, url, PyStr(json)),
           LAMBDA headers :
        IF verb \notin {<<"PUT">>, <<"POST">>, <<"DELETE">>}
        THEN Transported(UnrecognizedOperation(verb), None, TRUE, <<>>)
        ELSE HandleResponse(<<[verb |-> verb, url |-> url,
                               headers |-> headers, data |-> Some(json)]>>,
                            response))))

(***************************************************************************)
(* Transport calls against a mock server                                   *)
(***************************************************************************)
HostUrl == <<"https", ":", "/", "/", "www.bitmex.com", "/">>

TransportPaths == {<<"order">>, <<"instrument">>}

\* **params of a transport call, as the sequence of the dict's items
TransportParams ==
    { <<>>,
      <<[key |-> "symbol", value |-> PyStr(<<"XBTUSD">>)]>>,
      <<[key |-> "filter", value |-> PyStr(<<"a", " ", "b">>)],
        [key |-> "count", value |-> PyInt(5)]>> }

\* life: left to its default, or given
LifeArgs == {None, Some(-1), Some(0), Some(60)}

LifeOf(lifeArg) == IF lifeArg = None THEN LIFE ELSE lifeArg.some

\* time.time() in milliseconds: on a second, and just before the next one
Nows == {41000, 41999}

VerbInputs == {<<"PUT">>, <<"POST">>, <<"DELETE">>, <<"post">>}

\* What the server, or a gateway in front of it, answers
Responses ==
    { [status_code |-> 200,
       text |-> [kind |-> "json", value |-> [orderID |-> "o1"]]],
      [status_code |-> 400,
       text |-> [kind |-> "json",
                 value |-> [error |-> [name |-> "HTTPError",
                                       message |-> "Invalid ordType"]]]],
      [status_code |-> 502,
       text |-> [kind |-> "html",
                 value |-> [html |-> "<html>Bad Gateway</html>"]]] }

Get ==
    /\ call = Idle
    /\ \E acc \in KnownAccounts, path \in TransportPaths, lifeArg \in LifeArgs,
          params \in TransportParams, now \in Nows, response \in Responses :
         call' = [op |-> "_get", key |-> acc.key, secret |-> acc.secret,
                  path |-> path, verb |-> <<"GET">>, life |-> LifeOf(lifeArg),
                  params |-> params, now |-> now, response |-> response]
                 @@ _get(HostUrl, acc.key, acc.secret, path, LifeOf(lifeArg),
                         params, now, response)
    /\ UNCHANGED <<accounts, exchange, mt>>

PutPostDelete ==
    /\ call = Idle
    /\ \E acc \in KnownAccounts, path \in TransportPaths, verb \in VerbInputs,
          lifeArg \in LifeArgs, params \in TransportParams, now \in Nows,
          response \in Responses :
         call' = [op |-> "_put_post_delete", key |-> acc.key,
                  secret |-> acc.secret, path |-> path, verb |-> verb,
                  life |-> LifeOf(lifeArg), params |-> params, now |-> now,
                  response |-> response]
                 @@ _put_post_delete(HostUrl, acc.key, acc.secret, path, verb,
                                     LifeOf(lifeArg), params, now, response)
    /\ UNCHANGED <<accounts, exchange, mt>>

TransportNext ==
    \/ Get
    \/ PutPostDelete
    \/ Return

TransportSpec == Init /\ [][TransportNext]_vars

TransportOps == {"_get", "_put_post_delete"}

(***************************************************************************)
(* C12: for every life < 0, every transport call (GET and PUT/POST/DELETE) *)
(* fails with the negative-life error before signing and before any        *)
(* network request is issued.                                              *)
(***************************************************************************)
C12_NegativeLifeFailsFirst ==
    call.op \in TransportOps /\ call.life < 0 =>
        /\ call.raised = RequestLifeNegative(call.life)
        /\ call.value = None
        /\ ~call.signed
        /\ call.http = <<>>

\* a POST with life = -1 and a server that would have answered 200
C12_Witness ==
    /\ call.op = "_put_post_delete"
    /\ call.verb = <<"POST">>
    /\ call.life = -1
    /\ call.response.status_code = 200
    /\ call.raised.type = "BitmexApiException"
    /\ call.http = <<>>

(***************************************************************************)
(* C13: for every request, the api-expires header equals the clock value   *)
(* at signing time (in whole seconds) plus the life argument of the        *)
(* transport call, 5 when life is not overridden.                          *)
(***************************************************************************)
C13_ExpiresIsClockPlusLife ==
    call.op \in TransportOps =>
        \A i \in 1..Len(call.http) :
            call.http[i].headers["api-expires"]
                = str((call.now \div 1000) + call.life)

\* The expiry timestamps a request of the model can carry
Expiries == 0..200

\* The url of a request after its scheme and host
AfterNetloc(url) == SubSeq(url, 6, Len(url))

\* The body a request transmits: none for a GET
BodyOf(req) == IF req.data = None THEN <<>> ELSE req.data.some

C16_SignedIsSent ==
    call.op \in TransportOps =>
        \A i \in 1..Len(call.http) :
            LET req == call.http[i] IN
            /\ req.headers["api-signature"].key = call.secret
            /\ req.headers["api-signature"].message
                 = req.verb \o AfterNetloc(req.url)
                   \o req.headers["api-expires"] \o BodyOf(req)
            /\ req.verb = <<"GET">> <=> req.data = None
            /\ req.verb # <<"GET">> => req.data = Some(dumps(call.params))

\* a POST whose body has two items, one of them with a space
C16_Witness ==
    /\ call.op = "_put_post_delete"
    /\ call.verb = <<"POST">>
    /\ Len(call.params) = 2
    /\ Len(call.http) = 1
    /\ call.http[1].data # None
    /\ Len(call.http[1].data.some) > 2
    /\ call.raised = NoExc

(***************************************************************************)
(* C17: a transport call returns the parsed JSON body if and only if the   *)
(* HTTP status is 200; for a response with any other status it fails with  *)
(* the API error (BitmexApiException) carrying status, error name and      *)
(* error message, and never returns a value or fails with another kind of  *)
(* error.                                                                  *)
(***************************************************************************)
C17_ValueIffStatus200 ==
    call.op \in TransportOps /\ call.http # <<>> =>
        IF call.response.status_code = 200
        THEN /\ call.raised = NoExc
             /\ call.value = call.response.text.value
        ELSE /\ call.value = None
             /\ call.raised.type = "BitmexApiException"
             /\ SubSeq(call.raised.text, 1, 3) = str(call.response.status_code)

(***************************************************************************)
(* _generate_signature as a pure function: two runs on chosen inputs       *)
(***************************************************************************)
SignVerbs == {<<"GET">>, <<"POST">>}

SignHosts == {<<>>, <<"https", ":", "/", "/", "www.bitmex.com">>}

\* "/o" and "/o1": with the expiries 1, 11 and 12 the end of a path and the
\* start of an expiry can be taken for one another
SignPaths == {<<"/", "o">>, <<"/", "o", "1">>}

SignQueries == {<<>>, <<"count", "=", "1">>}

SignExpiries == {1, 11, 12}

SignJsons == {PyStr(<<>>), PyStr(<<"{", "}">>), PyBytes(<<"{", "}">>)}

SignInputs ==
    [secret : {"sa", "sb"}, verb : SignVerbs, host : SignHosts,
     path : SignPaths, query : SignQueries, expires : SignExpiries,
     json : SignJsons]

\* The url of a signing input: full or only the path, with its query
UrlOf(x) ==
    x.host \o x.path \o (IF x.query # <<>> THEN <<"?">> \o x.query ELSE <<>>)

SignInit ==
    /\ accounts = <<>>
    /\ exchange = [k \in Keys |-> "ok"]
    /\ call \in [op : {"sign_inputs"}, x : SignInputs, y : SignInputs]
    /\ mt = __init__("Multithreaded")

\* Two runs of _generate_signature, on x and on y
GenerateSignature ==
    /\ call.op = "sign_inputs"
    /\ call' = [op |-> "_generate_signature", x |-> call.x, y |-> call.y,
                sx |-> _generate_signature(call.x.secret, call.x.verb,
                                           UrlOf(call.x), call.x.json,
                                           call.x.expires),
                sy |-> _generate_signature(call.y.secret, call.y.verb,
                                           UrlOf(call.y), call.y.json,
                                           call.y.expires)]
    /\ UNCHANGED <<accounts, exchange, mt>>

SignNext == GenerateSignature

SignSpec == SignInit /\ [][SignNext]_vars

\* The parts of a signing input that the claim lets change one at a time
SignParts == {"verb", "path", "expires", "json"}

PartOf(x, part) ==
    CASE part = "verb" -> x.verb
      [] part = "path" -> <<x.path, x.query>>
      [] part = "expires" -> <<x.expires>>
      [] part = "json" -> x.json.text

DifferingParts(x, y) == {part \in SignParts : PartOf(x, part) # PartOf(y, part)}

(***************************************************************************)
(* C15: sign is deterministic and input-sensitive: two runs with the same  *)
(* (secret, verb, path, expires, json) sign the same message and give the  *)
(* same signature, and changing exactly one of verb, path (with query),    *)
(* expires or json while keeping the others fixed changes the signed       *)
(* message verb + path + str(expires) + json.                              *)
(***************************************************************************)
C15_SignDeterministicAndSensitive ==
    call.op = "_generate_signature" =>
        /\ DifferingParts(call.x, call.y) = {} =>
             /\ call.sx.message = call.sy.message
             /\ call.x.secret = call.y.secret => call.sx = call.sy
        /\ Cardinality(DifferingParts(call.x, call.y)) = 1 =>
             /\ call.sx.message # call.sy.message
             /\ call.sx # call.sy

\* only the expiry differs, 1 against 11, after a path that ends in "1"
C15_Witness ==
    /\ call.op = "_generate_signature"
    /\ DifferingParts(call.x, call.y) = {"expires"}
    /\ call.x.path = <<"/", "o", "1">>
    /\ call.x.expires = 1
    /\ call.y.expires = 11
    /\ call.sx.message # call.sy.message

MarginOps == {"instrument_margin_per_contract"}

\* The instrument lookups a call of instrument_margin_per_contract needs
LookupsNeeded(c) ==
    (IF c.forceContractValue = None THEN 1 ELSE 0)
    + (IF c.forceInverse = None THEN 1 ELSE 0)

\* The arguments of a margin call, named as a relative composer names them
MarginArgs(c) ==
    [symbol |-> c.symbol, limitPrice |-> c.price,
     forceContractValue |-> c.forceContractValue,
     forceInverse |-> c.forceInverse]

\* Whether the call computes for an inverse instrument
TakenAsInverse(c) ==
    IF c.forceInverse = None THEN Instruments[c.symbol].isInverse
    ELSE c.forceInverse.some

\* Every lookup the call needs is answered
LookupsSucceed(c) ==
    LookupsNeeded(c) > 0 =>
        Registered(c.name) /\ exchange[KeyOf(c.name)] # "down"

(***************************************************************************)
(* C18: marginPerContract returns price * contractValue for a non-inverse  *)
(* instrument and contractValue / price for an inverse one, and each       *)
(* supplied override suppresses its lookup: with forceContractValue given  *)
(* no contract-value lookup is made, with forceInverse given (True or      *)
(* False) no inverse lookup is made, and with both given no network call   *)
(* is made at all.                                                         *)
(***************************************************************************)
C18_MarginPerContract ==
    call.op \in MarginOps =>
        /\ \A i \in 1..Len(call.net) : call.net[i].endpoint = "instrument_get"
        /\ Len(call.net) <= LookupsNeeded(call)
        /\ ~Raised(call) =>
             /\ Len(call.net) = LookupsNeeded(call)
             /\ call.value = ExpectedMargin(MarginArgs(call))
        /\ LookupsSucceed(call) /\ ~(TakenAsInverse(call) /\ call.price = 0) =>
             ~Raised(call)

\* XBTUSD is inverse at the exchange, forceInverse=False overrides it: one
\* lookup (the contract value, 1.0) and 200 * 1.0
C18_Witness ==
    /\ call.op = "instrument_margin_per_contract"
    /\ call.symbol = "XBTUSD"
    /\ call.price = 200
    /\ call.forceContractValue = None
    /\ call.forceInverse = Some(FALSE)
    /\ Len(call.net) = 1
    /\ call.value = Rat(200, 1)

(***************************************************************************)
(* C19: marginPerContract called with price == 0 for an inverse instrument *)
(* fails with the InvalidPrice domain error (a typed core/validation       *)
(* error), not with an unhandled arithmetic error, and returns no value.   *)
(***************************************************************************)
C19_ZeroPriceIsDomainError ==
    /\ call.op \in MarginOps
    /\ call.price = 0
    /\ TakenAsInverse(call)
    /\ LookupsSucceed(call)
    => /\ call.raised.type \in {"InvalidPrice", "BitmexCoreException"}
       /\ call.value = None

\* The entries of a name list that resolve to a registered account
ResolvedIdx(names) == {i \in 1..Len(names) : Registered(names[i])}

(***************************************************************************)
(* C20: every fan-out operation invokes the API call exactly once per      *)
(* resolved name entry per invocation: a failed call is never retried, and *)
(* no request is left out or merged with another one.                      *)
(***************************************************************************)
C20_OneCallPerResolvedEntry ==
    /\ call.op = "_for_each_account" =>
         Len(call.net) = Cardinality(ResolvedIdx(call.names))
    /\ call.op = "_for_one_account" =>
         Len(call.net) = (IF Registered(call.name) THEN 1 ELSE 0)

\* The names of a list of accounts, or of result entries
AccountNamesOf(list) ==
    [i \in 1..Len(list) |->
        IF "account" \in DOMAIN list[i] THEN list[i].account.name
        ELSE list[i].name]

\* Whether accounts.get returns an account for that name
Resolves(name) == ~GetRaises(accounts, name) /\ Registered(name)

\* The attempted names of a fan-out that resolved and whose call succeeded,
\* in input order
NamesThatSucceeded(c) ==
    LET Ok(name) == Resolves(name)
                    /\ ~MarginFails(name)
                    /\ (c.op = "_for_each_relative" => ~OrderFails(name))
    IN  SelectSeq(c.attempted, Ok)

\* The attempted names of a fan-out that resolved and whose call failed, in
\* input order
NamesThatFailed(c) ==
    LET Failed(name) == Resolves(name)
                        /\ \/ MarginFails(name)
                           \/ c.op = "_for_each_relative" /\ OrderFails(name)
    IN  SelectSeq(c.attempted, Failed)

(***************************************************************************)
(* C21: the result list and the error list of _for_each_account and        *)
(* _for_each_relative preserve the order of the input names: the entries   *)
(* of each list are those of the attempted names that succeeded (that      *)
(* failed), in the order of the input.                                     *)
(***************************************************************************)
C21_ListsKeepInputOrder ==
    call.op \in FanoutOps =>
        /\ AccountNamesOf(call.result) = NamesThatSucceeded(call)
        /\ AccountNamesOf(call.coreExc.accounts) = NamesThatFailed(call)

\* names given against the order of the registry, one of them twice
C21_Witness ==
    /\ call.op = "_for_each_account"
    /\ call.names = <<"b", "a", "b">>
    /\ Len(accounts) = 2
    /\ accounts[1].name = "a"
    /\ AccountNamesOf(call.result) = <<"b", "a", "b">>

(***************************************************************************)
(* C22: account names are unique within the registry in every reachable    *)
(* state, after any sequence of new, delete and load operations.           *)
(***************************************************************************)
C22_NamesUnique ==
    \A i, j \in 1..Len(accounts) :
        accounts[i].name = accounts[j].name => i = j

(***************************************************************************)
(* The polling objects on their own: one object of some class, over a      *)
(* registry that does not change                                           *)
(***************************************************************************)
ThreadInit ==
    /\ accounts \in {<<>>, <<AccountA>>}
    /\ exchange = [k \in Keys |-> "ok"]
    /\ call = Idle
    /\ mt \in {__init__(cls) : cls \in Classes}

LoopStep(t) ==
    \/ Iterate(t)
    \/ Sleep(t)
    \/ Check(t)
    \/ Clear(t)
    \/ Decrement(t)

ThreadNext ==
    \/ Run
    \/ Stop
    \/ Join
    \/ \E t \in ThreadIds : LoopStep(t)

ThreadSpec == ThreadInit /\ [][ThreadNext]_vars

\* Every started thread and the return of join get their turn
ThreadFairSpec ==
    /\ ThreadSpec
    /\ \A t \in ThreadIds : WF_vars(LoopStep(t))
    /\ WF_vars(Join)

(***************************************************************************)
(* C23: in the polling loop, delay_multiplier is 1 after every successful  *)
(* iteration and 1 + k * DELAY_MULTIPLIER_ON_FAIL after k consecutive      *)
(* failed iterations since the last success or since start;                *)
(* iterations_made increases by one exactly on successful iterations.      *)
(* (One loop thread; k and the iterations are counted up to MaxCount.)     *)
(***************************************************************************)
C23_LinearBackoff ==
    mt.started <= 1 =>
        /\ mt.delay_multiplier = 1 + mt.fails * DELAY_MULTIPLIER_ON_FAIL
        /\ mt.iterations_made = mt.successes

\* one success, then two failures in a row: the multiplier is 3 and one
\* iteration is counted
C23_Witness ==
    /\ mt.started = 1
    /\ mt.successes = 1
    /\ mt.iterations_made = 1
    /\ mt.fails = 2
    /\ mt.delay_multiplier = 3

(***************************************************************************)
(* C24: for every polling class (Bot, Accounts monitor, Positions          *)
(* monitor), the inter-iteration delay is computed from the current delay  *)
(* multiplier, so that after a failed iteration the delay before the next  *)
(* iteration is larger than it would be after a successful one under the   *)
(* same registry.                                                          *)
(***************************************************************************)
C24_DelayGrowsAfterFailure ==
    mt.delay # None /\ mt.fails > 0 =>
        mt.delay.some > _get_delay(mt.cls, 1, accounts)

(***************************************************************************)
(* C25: when the kill flag is set while a polling loop is in its sleep     *)
(* phase, the loop observes it at the next one-second tick: at most one    *)
(* further one-second sleep elapses and no further iteration is started.   *)
(***************************************************************************)
C25_KillSeenAtNextTick ==
    mt.kill_phase = "sleep" =>
        /\ mt.sleeps_after <= 1
        /\ mt.iterations_after = 0

(***************************************************************************)
(* C26: for every Multithreaded object on which run() was called, a        *)
(* subsequent stop() eventually returns with the loop thread terminated,   *)
(* assuming each iteration terminates and threads are scheduled fairly,    *)
(* for every value the computed delay can take, a delay of 0 seconds       *)
(* included.                                                               *)
(***************************************************************************)
C26_StopReturns ==
    (mt.caller = "joining" /\ mt.started = 1)
        ~> (mt.caller = "idle" /\ mt.pc[1] = "done")

(***************************************************************************)
(* C27: after stop() returns on a Multithreaded object, no thread started  *)
(* by run() on that object is still executing the polling loop and the     *)
(* kill flag is cleared, for every interleaving of run() and stop() calls, *)
(* run() called more than once before stop() included.                     *)
(***************************************************************************)
C27_StoppedMeansNoThread ==
    mt.returned /\ ~mt.stop_failed =>
        /\ \A t \in ThreadIds : mt.pc[t] \in {"unborn", "done"}
        /\ ~mt._kill_thread

(***************************************************************************)
(* C28: in a composer call with stopLoss requested, every account of the   *)
(* names list has had its primary order request sent, in the order of the  *)
(* list, before the first mirrored Stop order goes to any account, and     *)
(* nothing but Stop orders follows the first Stop order: the two rounds    *)
(* are never interleaved.                                                  *)
(***************************************************************************)
\* The keys of the primary orders among the first n requests of a call
PrimaryKeysBefore(c, n) ==
    LET primaries == SelectSeq(SubSeq(c.net, 1, n), IsPrimaryOrder)
    IN  [i \in 1..Len(primaries) |-> primaries[i].key]

\* The first Stop order of a call that sent one
FirstStop(c) == CHOOSE i \in StopOrders(c) : \A j \in StopOrders(c) : i <= j

C28_PrimaryRoundBeforeStopRound ==
    call.op \in ComposerOps /\ call.args.stopLoss /\ StopOrders(call) # {} =>
      /\ PrimaryKeysBefore(call, FirstStop(call) - 1)
           = [i \in 1..Len(call.args.accountNames) |->
                KeyOf(call.args.accountNames[i])]
      /\ \A j \in FirstStop(call)..Len(call.net) : IsStopOrder(call.net[j])

\* order_limit for a, b with a stop loss: both Limit orders, then both Stops
C28_Witness ==
    /\ call.op = "order_limit"
    /\ call.args.stopLoss
    /\ call.args.accountNames = <<"a", "b">>
    /\ Len(call.net) = 4
    /\ IsPrimaryOrder(call.net[1]) /\ call.net[1].key = "ka"
    /\ IsPrimaryOrder(call.net[2]) /\ call.net[2].key = "kb"
    /\ IsStopOrder(call.net[3]) /\ call.net[3].key = "ka"
    /\ IsStopOrder(call.net[4]) /\ call.net[4].key = "kb"

(***************************************************************************)
(* The order tables on their own, over the registry and the mock exchange  *)
(***************************************************************************)
InfoNext ==
    \/ New
    \/ Delete
    \/ ExchangeStep
    \/ ActiveOrderInfo
    \/ StopOrderInfo
    \/ HistoryOrderInfo
    \/ Return

InfoSpec == Init /\ [][InfoNext]_vars

InfoOps == {"active_order_info", "stop_order_info", "history_order_info"}

\* The order of the mock exchange with that orderID
BookOrder(orderID) ==
    CHOOSE o \in UNION {{OrderBook(k)[i] : i \in 1..Len(OrderBook(k))} : k \in Keys} :
        o.orderID = orderID

SignedOrderQty(order) ==
    IF order.side = "Sell" THEN 0 - order.orderQty ELSE order.orderQty

\* Whether every row of a returned table carries the signed quantity
RowsSigned(c) ==
    \A i \in 1..Len(c.value) : \A j \in 1..Len(c.value[i].orders) :
        c.value[i].orders[j].qty
          = SignedOrderQty(BookOrder(c.value[i].orders[j].orderID))

(***************************************************************************)
(* C30: stop_order_info and history_order_info report each order's qty as  *)
(* the signed order quantity, as active_order_info does: -orderQty for a   *)
(* Sell order and +orderQty for a Buy order.                               *)
(***************************************************************************)
C30_QtySigned ==
    call.op \in {"stop_order_info", "history_order_info"}
    /\ call.raised = NoExc
    => RowsSigned(call)

(***************************************************************************)
(* The fan-out engine over a registry loaded from a savefile edited by     *)
(* hand                                                                    *)
(***************************************************************************)
LookupNext ==
    \/ LoadEdited
    \/ ExchangeStep
    \/ AccountMarginStats
    \/ ForEachRelative
    \/ Return

LookupSpec == Init /\ [][LookupNext]_vars

\* The attempted names of a fan-out whose lookup or call raised, in input
\* order: one per recorded exception
Culprits(c) ==
    LET Failing(name) ==
          \/ GetRaises(accounts, name)
          \/ /\ Registered(name)
             /\ \/ MarginFails(name)
                \/ c.op = "_for_each_relative" /\ OrderFails(name)
    IN  SelectSeq(c.attempted, Failing)

\* The account names that the error's text puts in front of its exceptions
AttributedNames(coreExc) ==
    LET lines == Tail(__str__(coreExc))
    IN  [i \in 1..Len(lines) |-> lines[i][1]]

(***************************************************************************)
(* C29: in every aggregate error raised by _for_each_account and           *)
(* _for_each_relative the i-th recorded account is the account whose call  *)
(* raised the i-th recorded exception, and the i-th line of the error's    *)
(* text names the account that caused the i-th exception, also when        *)
(* lookup failures without an account were recorded earlier in the batch.  *)
(***************************************************************************)
C29_AccountsAlignedWithExceptions ==
    call.op \in FanoutOps /\ call.raised.type = "BitmexCoreMultiException" =>
      /\ Len(call.coreExc.exceptions) = Len(Culprits(call))
      /\ \A i \in 1..Len(call.coreExc.exceptions) :
           ~GetRaises(accounts, Culprits(call)[i]) =>
              /\ i <= Len(call.coreExc.accounts)
              /\ call.coreExc.accounts[i].name = Culprits(call)[i]
      /\ \A i \in 1..Len(AttributedNames(call.coreExc)) :
           AttributedNames(call.coreExc)[i] = Culprits(call)[i]

====
